---- MODULE Spec2Model ----
(***************************************************************************)
(* Two batch scripts over CSV contact lists.                               *)
(*   check.py        the Deduplicator: rewrites every ccs-2025-*.csv in    *)
(*                   place, dropping rows whose normalized e-mail was kept *)
(*                   in an earlier file.                                   *)
(*   csv-appender.py the Merger: folds a fixed list of files into          *)
(*                   master-2025.csv, one e-mail per line, in the order of *)
(*                   last occurrence.                                      *)
(* A text is a sequence of one-character strings, so that strip(), lower() *)
(* and the CSV codec's treatment of missing values are computed, not       *)
(* assumed.                                                                *)
(***************************************************************************)
EXTENDS Integers, Sequences, FiniteSets, TLC

(***************************************************************************)
(* Bounds of the model.                                                    *)
(***************************************************************************)
\* Rows over all the files of one Deduplicator run.
MaxRows == 3
\* Files matched by the Deduplicator's glob.
NumFiles == 2
\* Rows read by one Merger run, over all its input files.
MaxMergeRows == 4

(***************************************************************************)
(* Texts: str.strip() and str.lower().                                     *)
(***************************************************************************)
Whitespace == {" ", "\t"}

UpperChars == <<"A","B","C","D","E","F","G","H","I","J","K","L","M",
                "N","O","P","Q","R","S","T","U","V","W","X","Y","Z">>

LowerChars == <<"a","b","c","d","e","f","g","h","i","j","k","l","m",
                "n","o","p","q","r","s","t","u","v","w","x","y","z">>

LowerChar(c) ==
    IF \E i \in DOMAIN UpperChars : UpperChars[i] = c
    THEN LowerChars[CHOOSE i \in DOMAIN UpperChars : UpperChars[i] = c]
    ELSE c

RECURSIVE Lower(_)
Lower(s) == IF s = <<>> THEN <<>> ELSE <<LowerChar(Head(s))>> \o Lower(Tail(s))

RECURSIVE LStrip(_)
LStrip(s) == IF s # <<>> /\ Head(s) \in Whitespace THEN LStrip(Tail(s)) ELSE s

RECURSIVE RStrip(_)
RStrip(s) ==
    IF s # <<>> /\ s[Len(s)] \in Whitespace
    THEN RStrip(SubSeq(s, 1, Len(s) - 1))
    ELSE s

Strip(s) == RStrip(LStrip(s))

(***************************************************************************)
(* The pandas CSV codec of check.py.  read_csv turns a field whose text is *)
(* one of the default missing-value markers into NaN; astype(str) turns    *)
(* NaN into the text "nan"; to_csv writes NaN as an empty field and a text *)
(* as it is.  Numeric type inference is outside the model: the fields      *)
(* drawn below are never numeric.                                          *)
(***************************************************************************)
NaN == <<"<NaN>">>

NaValues ==
    { <<>>,
      <<"#","N","/","A">>, <<"#","N","/","A"," ","N","/","A">>, <<"#","N","A">>,
      <<"-","1",".","#","I","N","D">>, <<"-","1",".","#","Q","N","A","N">>,
      <<"-","N","a","N">>, <<"-","n","a","n">>,
      <<"1",".","#","I","N","D">>, <<"1",".","#","Q","N","A","N">>,
      <<"<","N","A",">">>, <<"N","/","A">>, <<"N","A">>, <<"N","U","L","L">>,
      <<"N","a","N">>, <<"N","o","n","e">>, <<"n","/","a">>, <<"n","a","n">>,
      <<"n","u","l","l">> }

ReadField(t) == IF t \in NaValues THEN NaN ELSE t

RECURSIVE read_csv(_)
read_csv(rows) ==
    IF rows = <<>> THEN <<>>
    ELSE <<[email |-> ReadField(Head(rows).email),
            other |-> ReadField(Head(rows).other)]>> \o read_csv(Tail(rows))

AsStr(v) == IF v = NaN THEN <<"n","a","n">> ELSE v

NormalizeNoLower(v) == Strip(AsStr(v))

Normalize(v) == Lower(Strip(AsStr(v)))

RECURSIVE NormalizeColumn(_)
NormalizeColumn(df) ==
    IF df = <<>> THEN <<>>
    ELSE <<[Head(df) EXCEPT !.email = Normalize(Head(df).email)]>>
         \o NormalizeColumn(Tail(df))

WriteField(v) == IF v = NaN THEN <<>> ELSE v

RECURSIVE to_csv(_)
to_csv(df) ==
    IF df = <<>> THEN <<>>
    ELSE <<[email |-> WriteField(Head(df).email),
            other |-> WriteField(Head(df).other)]>> \o to_csv(Tail(df))

\* mask = ~df[EMAIL_COL].isin(seen_emails): one test per row, all against the
\* set as it is before the file's own rows are added.
RECURSIVE Mask(_, _)
Mask(df, seenSet) ==
    IF df = <<>> THEN <<>>
    ELSE <<Head(df).email \notin seenSet>> \o Mask(Tail(df), seenSet)

\* cleaned_df = df[mask]
RECURSIVE Select(_, _)
Select(df, m) ==
    IF df = <<>> THEN <<>>
    ELSE (IF Head(m) THEN <<Head(df)>> ELSE <<>>) \o Select(Tail(df), Tail(m))

EmailsOf(df) == {df[i].email : i \in DOMAIN df}

\* seen_emails.update(cleaned_df[EMAIL_COL])
SeenAfterNoUpdate(seenSet, cleaned_df) == seenSet

SeenAfterReplace(seenSet, cleaned_df) == EmailsOf(cleaned_df)

SeenAfter(seenSet, cleaned_df) == seenSet \cup EmailsOf(cleaned_df)

(***************************************************************************)
(* Inputs of the Deduplicator: the e-mail and second-column texts a row    *)
(* may hold, and every way of laying at most MaxRows rows over NumFiles    *)
(* files (files[i] is the i-th name of sorted(glob(...))).                 *)
(***************************************************************************)
DedupEmails == { <<>>, <<" ">>, <<"a">>, <<"A"," ">> }

DedupOthers == { <<"x">>, <<"N","A">> }

DedupRows == [email : DedupEmails, other : DedupOthers]

SeqsUpTo(S, n) == UNION {[1..k -> S] : k \in 0..n}

Cuts(n) ==
    {c \in [0..NumFiles -> 0..n] :
        /\ c[0] = 0
        /\ c[NumFiles] = n
        /\ \A i \in 1..NumFiles : c[i - 1] <= c[i]}

Layout(s, c) == [i \in 1..NumFiles |-> SubSeq(s, c[i - 1] + 1, c[i])]

(***************************************************************************)
(* csv-appender.py: csv.DictReader hands each row's field as a text, or    *)
(* None when the row has no such column; the order list and the seen set.  *)
(***************************************************************************)
None == <<"<None>">>

EMAIL_COL == "E-mail 1 - Value"

input_files == <<"ccs-3.csv", "ccs-2025-1.csv", "ccs-2025-2.csv", "ccs-2025-3.csv",
                 "ccs-2025-4.csv", "ccs-2025-5.csv", "test.csv">>

\* "if not email": None and the empty text are falsy, every other text is truthy.
Falsy(email) == email = None \/ email = <<>>

Range(s) == {s[i] : i \in DOMAIN s}

\* list.remove(x): drops the first entry equal to x.
RECURSIVE Remove(_, _)
Remove(order, x) ==
    IF order = <<>> THEN <<>>
    ELSE IF Head(order) = x THEN Tail(order)
    ELSE <<Head(order)>> \o Remove(Tail(order), x)

\* The fields a row of the Merger's input may hold in the e-mail column.
MergeFields == { None, <<>>, <<" ">>, <<"a">>, <<"a"," ">>, <<"b">>, <<"c">> }

Absent == [header |-> "<absent>", rows |-> <<>>]

VARIABLES
    fs,            \* check.py: the text rows of each file on disk
    seen_emails,   \* check.py: seen_emails
    idx,           \* check.py: position of the running loop in files
    dpc,           \* check.py: "loop", "count", "done"; "idle" when not run
    removed,       \* check.py: the duplicate count printed for each file
    total_rows,    \* check.py: total_rows
    run,           \* "first" or "second" invocation of check.py
    orig,          \* history: the files as this run found them
    masks,         \* history: the mask computed for each file, this run
    seenAt,        \* history: seen_emails when each file's turn began
    email_order,   \* csv-appender.py: email_order
    seen,          \* csv-appender.py: seen
    mfile,         \* csv-appender.py: position of the loop in input_files
    mpc,           \* csv-appender.py: "open", "rows", "done",
                   \*   "FileNotFoundError", "ValueError"; "idle" when not run
    master,        \* csv-appender.py: master-2025.csv on disk, or Absent
    master0,       \* history: master-2025.csv before the run
    inputSeq,      \* history: the e-mail fields read so far, in order
    missing        \* history: the input files found missing

dvars == <<fs, seen_emails, idx, dpc, removed, total_rows, run, orig, masks, seenAt>>

mvars == <<email_order, seen, mfile, mpc, master, master0, inputSeq, missing>>

vars == <<dvars, mvars>>

DedupIdle ==
    /\ fs = <<>>
    /\ seen_emails = {}
    /\ idx = 1
    /\ dpc = "idle"
    /\ removed = <<>>
    /\ total_rows = 0
    /\ run = "first"
    /\ orig = <<>>
    /\ masks = <<>>
    /\ seenAt = <<>>

MergeIdle ==
    /\ email_order = <<>>
    /\ seen = {}
    /\ mfile = 1
    /\ mpc = "idle"
    /\ master = Absent
    /\ master0 = Absent
    /\ inputSeq = <<>>
    /\ missing = {}

(***************************************************************************)
(* check.py                                                                *)
(***************************************************************************)
DedupInit ==
    /\ \E s \in SeqsUpTo(DedupRows, MaxRows) :
         \E c \in Cuts(Len(s)) : fs = Layout(s, c)
    /\ seen_emails = {}
    /\ idx = 1
    /\ dpc = "loop"
    /\ removed = <<>>
    /\ total_rows = 0
    /\ run = "first"
    /\ orig = fs
    /\ masks = <<>>
    /\ seenAt = <<>>
    /\ MergeIdle

\* One turn of "for file in files": read, normalize, mask, update, rewrite, print.
ProcessFile ==
    /\ dpc = "loop"
    /\ idx <= NumFiles
    /\ LET df == NormalizeColumn(read_csv(fs[idx]))
           mask == Mask(df, seen_emails)
           cleaned_df == Select(df, mask)
       IN /\ seen_emails' = SeenAfter(seen_emails, cleaned_df)
          /\ fs' = [fs EXCEPT ![idx] = to_csv(cleaned_df)]
          /\ removed' = Append(removed, Len(df) - Len(cleaned_df))
          /\ masks' = Append(masks, mask)
          /\ seenAt' = Append(seenAt, seen_emails)
    /\ idx' = idx + 1
    /\ UNCHANGED <<dpc, total_rows, run, orig>>
    /\ UNCHANGED mvars

\* The main loop is over; the counting loop begins with total_rows = 0.
EndLoop ==
    /\ dpc = "loop"
    /\ idx > NumFiles
    /\ dpc' = "count"
    /\ idx' = 1
    /\ total_rows' = 0
    /\ UNCHANGED <<fs, seen_emails, removed, run, orig, masks, seenAt>>
    /\ UNCHANGED mvars

\* One turn of the second loop: rows = len(pd.read_csv(file)).
CountFile ==
    /\ dpc = "count"
    /\ idx <= NumFiles
    /\ total_rows' = total_rows + Len(read_csv(fs[idx]))
    /\ idx' = idx + 1
    /\ UNCHANGED <<fs, seen_emails, dpc, removed, run, orig, masks, seenAt>>
    /\ UNCHANGED mvars

\* print("Total rows across all files:", total_rows); the process exits.
Finish ==
    /\ dpc = "count"
    /\ idx > NumFiles
    /\ dpc' = "done"
    /\ UNCHANGED <<fs, seen_emails, idx, removed, total_rows, run, orig, masks, seenAt>>
    /\ UNCHANGED mvars

\* check.py is started again on the files it wrote: a fresh process, so a
\* fresh seen_emails.
RunAgain ==
    /\ dpc = "done"
    /\ run = "first"
    /\ run' = "second"
    /\ orig' = fs
    /\ seen_emails' = {}
    /\ idx' = 1
    /\ dpc' = "loop"
    /\ removed' = <<>>
    /\ masks' = <<>>
    /\ seenAt' = <<>>
    /\ total_rows' = 0
    /\ UNCHANGED fs
    /\ UNCHANGED mvars

DedupNext == ProcessFile \/ EndLoop \/ CountFile \/ Finish \/ RunAgain

SpecDedup == DedupInit /\ [][DedupNext]_vars

(***************************************************************************)
(* csv-appender.py                                                         *)
(***************************************************************************)
MergeInit ==
    /\ email_order = <<>>
    /\ seen = {}
    /\ mfile = 1
    /\ mpc = "open"
    /\ master0 \in {Absent, [header |-> EMAIL_COL, rows |-> <<<<"o">>>>]}
    /\ master = master0
    /\ inputSeq = <<>>
    /\ missing = {}
    /\ DedupIdle

\* open(file): the file is there, or FileNotFoundError ends the run.
OpenFileSkipsMissing ==
    /\ mpc = "open"
    /\ mfile <= Len(input_files)
    /\ \E exists \in BOOLEAN :
         IF exists
         THEN /\ mpc' = "rows"
              /\ UNCHANGED <<mfile, missing>>
         ELSE /\ mpc' = "open"
              /\ mfile' = mfile + 1
              /\ missing' = missing \cup {input_files[mfile]}
    /\ UNCHANGED <<email_order, seen, master, master0, inputSeq>>
    /\ UNCHANGED dvars

OpenFile ==
    /\ mpc = "open"
    /\ mfile <= Len(input_files)
    /\ \E exists \in BOOLEAN :
         IF exists
         THEN /\ mpc' = "rows"
              /\ UNCHANGED missing
         ELSE /\ mpc' = "FileNotFoundError"
              /\ missing' = missing \cup {input_files[mfile]}
    /\ UNCHANGED <<email_order, seen, mfile, master, master0, inputSeq>>
    /\ UNCHANGED dvars

\* The e-mail a truthy field stands for: email.strip().
MergeKeyNoStrip(field) == field

MergeKey(field) == Strip(field)

\* Lines 26-30 on the order list, for an e-mail that is not skipped.
NextOrderKeepsFirst(order, seenSet, email) ==
    IF email \in seenSet THEN order ELSE Append(order, email)

NextOrderNoRemove(order, seenSet, email) == Append(order, email)

NextOrder(order, seenSet, email) ==
    Append(IF email \in seenSet THEN Remove(order, email) ELSE order, email)

\* One turn of "for row in reader".
ReadRow ==
    /\ mpc = "rows"
    /\ Len(inputSeq) < MaxMergeRows
    /\ \E field \in MergeFields :
         /\ inputSeq' = Append(inputSeq, field)
         /\ IF Falsy(field)
            THEN UNCHANGED <<email_order, seen, mpc>>
            ELSE LET email == MergeKey(field)
                 IN IF email \in seen /\ email \notin Range(email_order)
                    THEN /\ mpc' = "ValueError"
                         /\ UNCHANGED <<email_order, seen>>
                    ELSE /\ email_order' = NextOrder(email_order, seen, email)
                         /\ seen' = seen \cup {email}
                         /\ UNCHANGED mpc
    /\ UNCHANGED <<mfile, master, master0, missing>>
    /\ UNCHANGED dvars

\* The reader is exhausted; the with-block closes the file.
CloseFile ==
    /\ mpc = "rows"
    /\ mpc' = "open"
    /\ mfile' = mfile + 1
    /\ UNCHANGED <<email_order, seen, master, master0, inputSeq, missing>>
    /\ UNCHANGED dvars

\* Lines 32-36: the header, then one row per entry of email_order.
WriteOutput ==
    /\ mpc = "open"
    /\ mfile > Len(input_files)
    /\ master' = [header |-> EMAIL_COL, rows |-> email_order]
    /\ mpc' = "done"
    /\ UNCHANGED <<email_order, seen, mfile, master0, inputSeq, missing>>
    /\ UNCHANGED dvars

MergeNext == OpenFile \/ ReadRow \/ CloseFile \/ WriteOutput

SpecMerge == MergeInit /\ [][MergeNext]_vars

(***************************************************************************)
(* Properties of check.py (under SpecDedup).  Files 1..Len(masks) are the  *)
(* ones this run has rewritten; orig holds them as the run found them.     *)
(***************************************************************************)
Rewritten == 1..Len(masks)

\* The rows of orig[i] that the run kept, as they were before the run.
KeptOrig(i) == Select(orig[i], masks[i])

\* The codec reads the text as a missing value.
Missing(t) == t \in NaValues

\* A missing or blank e-mail.
Blank(t) == Missing(t) \/ Strip(t) = <<>>

TrimLower(t) == Strip(Lower(t))

\* C1 as stated: once the run is over, two rows anywhere in the rewritten
\* files (same file or not) share an e-mail only if both were missing/blank.
C1_NoSharedEmailAnywhere ==
    dpc = "done" =>
        \A i \in Rewritten, j \in Rewritten :
            \A k \in DOMAIN fs[i], l \in DOMAIN fs[j] :
                (<<i, k>> # <<j, l>> /\ fs[i][k].email = fs[j][l].email)
                    => (Blank(KeptOrig(i)[k].email) /\ Blank(KeptOrig(j)[l].email))

\* C1 amended: two rows of different rewritten files never carry the same
\* e-mail value; rows of one file may.
C1_NoSharedEmailAcrossFiles ==
    \A i \in Rewritten, j \in Rewritten :
        i # j => \A k \in DOMAIN fs[i], l \in DOMAIN fs[j] :
                    fs[i][k].email # fs[j][l].email

\* Two files keep rows, and the later one lost a duplicate of a row of the
\* earlier one.
C1_Witness ==
    /\ dpc = "done"
    /\ run = "first"
    /\ \E i \in Rewritten, j \in Rewritten :
         /\ i < j
         /\ fs[i] # <<>>
         /\ fs[j] # <<>>
         /\ removed[j] > 0

\* C2 as stated: a second run on the first run's output removes no row and
\* leaves every file as it found it.
C2_SecondRunChangesNothing ==
    (run = "second" /\ dpc = "done") =>
        /\ \A i \in DOMAIN removed : removed[i] = 0
        /\ fs = orig

\* C5 as stated: every rewritten row's e-mail is trim(lowercase(original)),
\* and a later row equal to an earlier kept row up to case and surrounding
\* whitespace is removed.
C5_EmailIsTrimLower ==
    /\ \A i \in Rewritten : \A k \in DOMAIN fs[i] :
         fs[i][k].email = TrimLower(KeptOrig(i)[k].email)
    /\ \A i \in Rewritten, j \in Rewritten :
         i < j => \A k \in DOMAIN KeptOrig(i), l \in DOMAIN orig[j] :
                    TrimLower(KeptOrig(i)[k].email) = TrimLower(orig[j][l].email)
                        => ~masks[j][l]

\* C5 amended: the same for e-mails the codec does not read as missing; a
\* missing one is rewritten as the placeholder "nan".
C5_EmailIsTrimLowerUnlessMissing ==
    /\ \A i \in Rewritten : \A k \in DOMAIN fs[i] :
         LET o == KeptOrig(i)[k].email
         IN fs[i][k].email = IF Missing(o) THEN <<"n","a","n">> ELSE TrimLower(o)
    /\ \A i \in Rewritten, j \in Rewritten :
         i < j => \A k \in DOMAIN KeptOrig(i), l \in DOMAIN orig[j] :
                    LET o1 == KeptOrig(i)[k].email
                        o2 == orig[j][l].email
                    IN (~Missing(o1) /\ ~Missing(o2) /\ TrimLower(o1) = TrimLower(o2))
                           => ~masks[j][l]

\* "A " is kept in the first file and rewritten as "a"; the second file's
\* "a" is removed as its duplicate.
C5_Witness ==
    /\ run = "first"
    /\ Len(masks) = NumFiles
    /\ Len(orig[1]) = 1
    /\ orig[1][1].email = <<"A"," ">>
    /\ fs[1][1].email = <<"a">>
    /\ \E l \in DOMAIN orig[2] : orig[2][l].email = <<"a">> /\ ~masks[2][l]

\* The rows of a file whose normalized e-mail is not in a given set.
RECURSIVE NewRows(_, _)
NewRows(rows, seenSet) ==
    IF rows = <<>> THEN <<>>
    ELSE (IF Normalize(ReadField(Head(rows).email)) \notin seenSet
          THEN <<Head(rows)>> ELSE <<>>) \o NewRows(Tail(rows), seenSet)

\* C7 as stated: each rewritten file is the subsequence of its original rows
\* whose normalized e-mail was not seen when its turn began, the other
\* column unchanged, and the count printed is original minus rewritten.
C7_RewriteKeepsOtherColumns ==
    \A i \in Rewritten :
        LET new == NewRows(orig[i], seenAt[i])
        IN /\ Len(fs[i]) = Len(new)
           /\ \A k \in DOMAIN fs[i] : fs[i][k].other = new[k].other
           /\ removed[i] = Len(orig[i]) - Len(fs[i])

\* What check.py does instead: the other column comes back as the codec
\* writes what it read, so a missing-value marker comes back empty.
RewriteIsCodecImageOfNewRows ==
    \A i \in Rewritten :
        LET new == NewRows(orig[i], seenAt[i])
        IN /\ Len(fs[i]) = Len(new)
           /\ \A k \in DOMAIN fs[i] :
                /\ fs[i][k].other = WriteField(ReadField(new[k].other))
                /\ fs[i][k].email = Normalize(ReadField(new[k].email))
           /\ removed[i] = Len(orig[i]) - Len(fs[i])

\* C8: within a run seen_emails starts empty, no step removes a key, and
\* after i files it is the set of e-mails of the rows kept in files 1..i.
C8_SeenGrowsAndIsKeptEmails ==
    /\ [](seen_emails = UNION {EmailsOf(fs[i]) : i \in Rewritten})
    /\ [](Len(masks) = 0 => seen_emails = {})
    /\ [][run' = run => seen_emails \subseteq seen_emails']_vars

\* Every file is done, the set has grown twice and a duplicate was dropped.
C8_Witness ==
    /\ Len(masks) = NumFiles
    /\ Cardinality(seen_emails) >= 2
    /\ seenAt[NumFiles] # {}
    /\ seenAt[NumFiles] # seen_emails
    /\ \E i \in Rewritten : removed[i] > 0

(***************************************************************************)
(* Properties of csv-appender.py (under SpecMerge).  inputSeq is the       *)
(* concatenation of the e-mail fields of the input files, in listed order. *)
(***************************************************************************)
\* The positions of inputSeq that carry the (trimmed) e-mail e.
Occurrences(e) ==
    {i \in DOMAIN inputSeq : inputSeq[i] # None /\ Strip(inputSeq[i]) = e}

\* The e-mails of the input: non-empty after trimming.
InputEmails ==
    {Strip(inputSeq[i]) : i \in {n \in DOMAIN inputSeq : inputSeq[n] # None}}
        \ {<<>>}

LastOccurrence(e) == CHOOSE i \in Occurrences(e) : \A j \in Occurrences(e) : j <= i

Count(e, s) == Cardinality({k \in DOMAIN s : s[k] = e})

Position(e, s) == CHOOSE k \in DOMAIN s : s[k] = e

NonEmptyEntries(s) == SelectSeq(s, LAMBDA x : x # <<>>)

\* C3: the output holds every e-mail of the input exactly once and no other
\* e-mail, each at the rank of its last occurrence.
C3_EachEmailOnceAtLastOccurrence ==
    mpc = "done" =>
        LET out == NonEmptyEntries(master.rows)
        IN /\ master.header = EMAIL_COL
           /\ Range(out) \subseteq InputEmails
           /\ \A e \in InputEmails :
                /\ Count(e, master.rows) = 1
                /\ Position(e, out) =
                     1 + Cardinality({d \in InputEmails :
                                        LastOccurrence(d) < LastOccurrence(e)})

\* "a", "b", "a " and a row without the column: the output is b, a.
C3_Witness ==
    /\ mpc = "done"
    /\ inputSeq = << <<"a">>, <<"b">>, <<"a"," ">>, None >>
    /\ master.rows = << <<"b">>, <<"a">> >>

\* C4: an e-mail whose last occurrence comes first is written first.
C4_OrderedByLastOccurrence ==
    mpc = "done" =>
        \A A \in InputEmails, B \in InputEmails :
            (A # B /\ LastOccurrence(A) < LastOccurrence(B)) =>
                /\ A \in Range(master.rows)
                /\ B \in Range(master.rows)
                /\ Position(A, master.rows) < Position(B, master.rows)

\* The example: [a, b] then [b, c] gives a, b, c.
C4_Witness ==
    /\ mpc = "done"
    /\ inputSeq = << <<"a">>, <<"b">>, <<"b">>, <<"c">> >>
    /\ master.rows = << <<"a">>, <<"b">>, <<"c">> >>

\* C6: once an input file is found missing the run is over and
\* master-2025.csv is what it was before the run (absent, or its old rows).
C6_MissingFileLeavesOutputUntouched ==
    /\ missing # {} => (mpc = "FileNotFoundError" /\ master = master0)
    /\ mpc = "FileNotFoundError" => missing # {}
    /\ master # master0 => (mpc = "done" /\ missing = {})

\* The third file is missing, after rows of the first two were merged, and
\* an older master-2025.csv is still in place.
C6_Witness ==
    /\ mpc = "FileNotFoundError"
    /\ missing = {input_files[3]}
    /\ email_order # <<>>
    /\ master0 # Absent
    /\ master = master0

\* C9 as stated: every entry written to the output is non-empty after
\* trimming.
C9_NoEmptyEntryWritten ==
    mpc = "done" => \A k \in DOMAIN master.rows : Strip(master.rows[k]) # <<>>

\* C10: the order list has no duplicates, its elements are the seen set,
\* and list.remove never fails.
C10_OrderListMatchesSeen ==
    /\ \A e \in seen : Count(e, email_order) = 1
    /\ Range(email_order) = seen
    /\ mpc # "ValueError"

\* An e-mail seen before has just been moved to the end of the list.
C10_Witness ==
    /\ mpc = "rows"
    /\ inputSeq = << <<"a">>, <<"b">>, <<"a"," ">> >>
    /\ email_order = << <<"b">>, <<"a">> >>
====
